---- MODULE Spec2Model ----
(***************************************************************************)
(* Model of the NYLA e-commerce backend: order placement with loyalty      *)
(* points (server/controllers/orderController.js), the wishlist handlers   *)
(* (wishlistController, stored in paymentController.js) and the documents  *)
(* they act on (server/models).                                            *)
(*                                                                         *)
(* Every `await` on the document store is one step of a request: the       *)
(* store executes one operation on one document atomically, and requests   *)
(* of different clients interleave between their awaits.  Every store      *)
(* operation may also fail (reject).                                       *)
(***************************************************************************)
EXTENDS Integers, Sequences, FiniteSets, TLC

\* ---------------------------------------------------------------- bounds
NumReqs == 2          \* request slots that can be in flight at once
MaxOrders == 3        \* Orders created by requests that run one after another
MaxConcOrders == 2    \* Orders created by requests that run concurrently
MaxAmount == 3000     \* the points formula is evaluated on the amounts
MaxAuthOrders == 2    \* Orders created behind the authentication guard
MaxBodyOrders == 1    \* Orders created from the varied request bodies
MaxSysOrders == 1     \* Orders created while all handlers are served
MaxPayOrders == 1     \* Orders created next to the checkout sessions
MaxMixOrders == 1     \* Orders created concurrently with wishlist toggles
                      \* (numerators) -MaxAmount/2 .. MaxAmount

\* ---------------------------------------------------- program constants
PointsUnit == 1000    \* Math.floor(amount / 1000)
PointsPerUnit == 10   \* ... * 10
DefaultPoints == 0    \* points: { type: Number, default: 0 }

Users == {"u1", "u2"}
Products == {"p1", "p2"}
Amounts == {500, 1000, 1500}
Reqs == 1..NumReqs

VARIABLES
  orders,     \* the Order collection, in creation order; an Order's id is its index
  points,     \* User.points of every stored user
  wishlist,   \* User.wishlist of every stored user
  req,        \* the request handled in every slot: handler, position, locals
  resp,       \* the outcome of the request that ended last
  acked,      \* ids of the Orders whose placeOrder request answered 201
  amt,        \* PointsSpec: the amount num/den under evaluation and the
              \* pointsEarned computed for it
  products,   \* the Product collection: for every id, whether a Product with
              \* that id was never created, is stored or was removed, and its fields
  stripe,     \* the checkout session last requested from the payment provider
  accounts,   \* the identity part of the User collection: for every id, whether
              \* a User with that id is stored, its email, its credential hash
              \* and its order references
  auth        \* the state of the Auth page of the client

vars == <<orders, points, wishlist, req, resp, acked, amt, products, stripe,
          accounts, auth>>

\* ------------------------------------------------------------- helpers
\* const pointsEarned = Math.floor(amount / 1000) * 10;
\* (\div rounds towards minus infinity, as Math.floor does)
\* amount is a JavaScript Number: PointsEarnedOf takes it as the fraction num/den

\* faulty variant: Math.round in place of Math.floor
PointsEarnedOfRounded(num, den) ==
  ((2 * num + den * PointsUnit) \div (2 * den * PointsUnit)) * PointsPerUnit

PointsEarnedOf(num, den) == (num \div (den * PointsUnit)) * PointsPerUnit

PointsEarned(amount) == PointsEarnedOf(amount, 1)

\* faulty variant: Order.find({}) without the owner filter
OrdersOfAnyUser(u) == 1..Len(orders)

\* Order.find({ user: u }): the ids of the persisted Orders owned by u
OrdersOf(u) == {i \in 1..Len(orders) : orders[i].user = u}

\* the amounts PointsSpec evaluates: whole amounts and halves
Dens == {1, 2}
NoAmount == [num |-> 0, den |-> 1, state |-> "none", pointsEarned |-> 0]

\* Product ids are the ids a wishlist can refer to.  An id is given to at most
\* one Product: "none" before Product.create, "removed" after product.remove()
NoProduct == [state |-> "none", name |-> <<>>, category |-> "", colors |-> {},
              sizes |-> {}, inStock |-> FALSE]

\* product names, character by character
Names == {<<"T", "e", "e">>, <<"H", "a", "t">>}

\* no call to stripe.checkout.sessions.create yet
NoCall == [cartItems |-> <<>>, line_items |-> <<>>, called |-> FALSE]

\* ------------------------------------------------------------ users
Emails == {"a@nyla.io", "b@nyla.io"}
Passwords == {"pw1", "pw2"}

\* a credential hash: the plaintext it was computed from and how many times
\* bcrypt.hash was applied on the way (a hash of a hash matches no plaintext)
NoHash == [plain |-> "", rounds |-> 0]

\* bcrypt.hash(plaintext, 10)
HashOf(plaintext) == [plain |-> plaintext, rounds |-> 1]

\* bcrypt.hash(this.password, 10) applied to a stored value
Rehash(stored) == [stored EXCEPT !.rounds = @ + 1]

\* faulty variant: the hook hashes on every save
PreSaveAlways(password, modified) == Rehash(password)

\* userSchema.pre('save'):
\* if (!this.isModified('password')) return;
\* this.password = await bcrypt.hash(this.password, 10);
PreSave(password, modified) == IF ~modified THEN password ELSE Rehash(password)

\* no User document with this id
NoAccount == [state |-> "none", name |-> "", email |-> "", password |-> NoHash,
              orders |-> {}]

\* the users registered before the requests of the model begin: u1 with
\* a@nyla.io / pw1 and u2 with b@nyla.io / pw2
Registered ==
  [u \in Users |->
     [state |-> "stored",
      name |-> u,
      email |-> IF u = "u1" THEN "a@nyla.io" ELSE "b@nyla.io",
      password |-> HashOf(IF u = "u1" THEN "pw1" ELSE "pw2"),
      orders |-> {}]]

\* the Auth page as mounted: useState(true), useState(false), useState('');
\* log is the last console.log of handleSubmit, last the handler that ran last
\* and prev the mode the page was in before that handler
AuthMounted ==
  [isLogin |-> TRUE, showPassword |-> FALSE, showConfirmPassword |-> FALSE,
   email |-> "", password |-> "", confirmPassword |-> "",
   firstName |-> "", lastName |-> "",
   log |-> <<>>, last |-> "mount", prev |-> TRUE]

\* ------------------------------------------------------ authentication
\* isAdmin: { type: Boolean, default: false }; no handler ever writes the
\* field, the administrators are the users it was set for in the store
Admins == {"u1"}

\* The Authorization header of a request: absent, a bearer token that
\* jwt.verify rejects (bad signature or expired) whatever id it names, or a
\* token issued to user id
Tokens ==
  {[kind |-> "none", id |-> "u1"]}
    \cup {[kind |-> k, id |-> u] : k \in {"invalid", "valid"}, u \in Users}

Unauthorized == "401"

\* faulty variant: jwt.decode in place of jwt.verify (the signature is not checked)
ProtectDecodesOnly(t) == IF t.kind = "none" THEN Unauthorized ELSE t.id

\* protect: const token = req.headers.authorization?.split(' ')[1];
\* if (!token) return 401; try { decoded = jwt.verify(token, secret);
\* req.user = await User.findById(decoded.id); next() } catch { 401 }
\* The result is the user the handler runs for, or Unauthorized.
Protect(t) == IF t.kind = "valid" THEN t.id ELSE Unauthorized

\* faulty variant: the guard only asks for an authenticated user
AdminAnyUser(u) == u \in Users

\* admin: if (req.user && req.user.isAdmin) next(); else 403
Admin(u) == u \in Admins

\* ------------------------------------------------------------ requests
\* a loaded User document: the fields the handlers touch, whether the
\* wishlist path was modified since the load, and whether the stored
\* document's array version (__v) has moved on since the load
NoDoc == [loaded |-> FALSE, points |-> 0, wishlist |-> <<>>, modified |-> FALSE,
          stale |-> FALSE]

\* nothing recorded about the stored values a request began with
NoPre == <<>>

\* req.body of placeOrder next to amount: the destructured items,
\* shippingInfo and paymentIntent, and the fields user and status a client may
\* send along ("absent": the body has no such field)
NoBody == [items |-> <<>>,
           shippingInfo |-> [name |-> "", address |-> "", city |-> "", state |-> "",
                             postalCode |-> "", country |-> ""],
           paymentIntent |-> "", user |-> "absent", status |-> "absent"]

\* the fields of req.body that updateProduct assigns; none
NoPatch == [fields |-> {}, name |-> <<>>, inStock |-> FALSE]

\* a slot with no request in it
Idle == [op |-> "none", pc |-> "idle", user |-> "u1", amount |-> 0,
         productId |-> "p1", order |-> 0, doc |-> NoDoc, pre |-> NoPre,
         patch |-> NoPatch, body |-> NoBody, input |-> <<>>]

NoResp == [op |-> "none", user |-> "u1", productId |-> "p1", order |-> 0,
           status |-> 0, failedAt |-> "none", body |-> <<>>, pre |-> NoPre,
           message |-> "", error |-> "", input |-> <<>>]

\* the outcome of the request in slot r: the status sent (0: none), the store
\* operation that failed, and the body
Outcome(r, status, failedAt, body) ==
  [op |-> req[r].op, user |-> req[r].user, productId |-> req[r].productId,
   order |-> req[r].order, status |-> status, failedAt |-> failedAt,
   body |-> body, pre |-> req[r].pre, message |-> "", error |-> "",
   input |-> req[r].input]

\* err.message of the rejection of a store operation
StoreError == "store error"

\* catch (err) { res.status(400).json({ message: 'Order failed', error: err.message }) }
\* (failedAt records the operation that rejected; it is not part of the answer)
OrderFailed(r, failedAt) ==
  [Outcome(r, 400, failedAt, <<>>) EXCEPT !.message = "Order failed",
                                          !.error = StoreError]

Free(r) == req[r].pc = "idle"
InFlight(r) == ~Free(r)
PlaceInFlight == \E r \in Reqs : InFlight(r) /\ req[r].op = "placeOrder"
NoneInFlight == \A r \in Reqs : Free(r)

\* a request is served in the first free slot
Accepts(r) == Free(r) /\ \A q \in Reqs : q < r => InFlight(q)

\* the stored value a request began with, kept for the requests that begin
\* while no other request is in flight
Snapshot(value) == IF NoneInFlight THEN value ELSE NoPre

\* placeOrder requests that have been admitted and may still create an Order
Pending == Cardinality({r \in Reqs : req[r].op = "placeOrder" /\ req[r].pc = "create"})

\* the User collection after user.save() of a handler that loaded user u and
\* did not assign its password: the hook runs with the path unmodified
Saved(u) == [accounts EXCEPT ![u].password = PreSave(@, FALSE)]

Init ==
  /\ orders = <<>>
  /\ points = [u \in Users |-> DefaultPoints]
  /\ wishlist = [u \in Users |-> <<>>]
  /\ req = [r \in Reqs |-> Idle]
  /\ resp = NoResp
  /\ acked = {}
  /\ amt = NoAmount
  /\ products = [p \in Products |-> NoProduct]
  /\ stripe = NoCall
  /\ accounts = Registered
  /\ auth = AuthMounted

\* -------------------------------------------------------- placeOrder
\* router.post('/', protect, placeOrder): the request of authenticated user u
\* enters the handler with req.body.amount = a and the rest of req.body = body
\* const { items, amount, shippingInfo, paymentIntent } = req.body;
PlaceOrderRequest(r, u, a, body) ==
  /\ Accepts(r)
  /\ req' = [req EXCEPT ![r] = [Idle EXCEPT !.op = "placeOrder", !.pc = "create",
                                            !.user = u, !.amount = a,
                                            !.body = body,
                                            !.pre = Snapshot(points)]]
  /\ UNCHANGED <<orders, points, wishlist, resp, acked, amt, products, stripe, accounts, auth>>

\* the request whose body holds an empty cart besides the amount
PlaceOrderStart(r, u, a) == PlaceOrderRequest(r, u, a, NoBody)

\* faulty variant: the handler goes on only when amount is the total of the
\* items at 500 a piece
RECURSIVE ItemsTotal(_)
ItemsTotal(items) ==
  IF items = <<>> THEN 0
  ELSE Head(items).quantity * 500 + ItemsTotal(Tail(items))

OrderCreateChecksTotal(r) ==
  /\ req[r].op = "placeOrder" /\ req[r].pc = "create"
  /\ req[r].amount = ItemsTotal(req[r].body.items)
  /\ orders' = Append(orders,
        [user |-> req[r].user,
         items |-> req[r].body.items,
         amount |-> req[r].amount,
         shippingInfo |-> req[r].body.shippingInfo,
         paymentIntent |-> req[r].body.paymentIntent,
         status |-> "Processing"])
  /\ req' = [req EXCEPT ![r].pc = "findUser", ![r].order = Len(orders) + 1]
  /\ UNCHANGED <<points, wishlist, resp, acked, amt, products, stripe, accounts, auth>>

\* faulty variant: the document is built from the whole body,
\* Order.create({ user: req.user._id, status: 'Processing', ...req.body })
OrderCreateSpreadsBody(r) ==
  /\ req[r].op = "placeOrder" /\ req[r].pc = "create"
  /\ orders' = Append(orders,
        [user |-> IF req[r].body.user = "absent" THEN req[r].user ELSE req[r].body.user,
         items |-> req[r].body.items,
         amount |-> req[r].amount,
         shippingInfo |-> req[r].body.shippingInfo,
         paymentIntent |-> req[r].body.paymentIntent,
         status |-> IF req[r].body.status = "absent" THEN "Processing"
                    ELSE req[r].body.status])
  /\ req' = [req EXCEPT ![r].pc = "findUser", ![r].order = Len(orders) + 1]
  /\ UNCHANGED <<points, wishlist, resp, acked, amt, products, stripe, accounts, auth>>

\* await Order.create({ user: req.user._id, items, amount, shippingInfo,
\*                      paymentIntent, status: 'Processing' })
OrderCreate(r) ==
  /\ req[r].op = "placeOrder" /\ req[r].pc = "create"
  /\ orders' = Append(orders,
        [user |-> req[r].user,
         items |-> req[r].body.items,
         amount |-> req[r].amount,
         shippingInfo |-> req[r].body.shippingInfo,
         paymentIntent |-> req[r].body.paymentIntent,
         status |-> "Processing"])
  /\ req' = [req EXCEPT ![r].pc = "findUser", ![r].order = Len(orders) + 1]
  /\ UNCHANGED <<points, wishlist, resp, acked, amt, products, stripe, accounts, auth>>

\* faulty variant: the rejection of Order.create is swallowed and the handler
\* goes on to the points update
OrderCreateFailContinues(r) ==
  /\ req[r].op = "placeOrder" /\ req[r].pc = "create"
  /\ req' = [req EXCEPT ![r].pc = "findUser"]
  /\ UNCHANGED <<orders, points, wishlist, resp, acked, amt, products, stripe, accounts, auth>>

\* Order.create rejects: catch (err) { res.status(400).json({ message: 'Order failed' }) }
OrderCreateFail(r) ==
  /\ req[r].op = "placeOrder" /\ req[r].pc = "create"
  /\ req' = [req EXCEPT ![r] = Idle]
  /\ resp' = OrderFailed(r, "create")
  /\ UNCHANGED <<orders, points, wishlist, acked, amt, products, stripe, accounts, auth>>

\* faulty variant: user.points = pointsEarned in place of +=
UserFindByIdAssigns(r) ==
  /\ req[r].op = "placeOrder" /\ req[r].pc = "findUser"
  /\ req' = [req EXCEPT ![r].pc = "save",
                        ![r].doc = [NoDoc EXCEPT !.loaded = TRUE,
                                      !.wishlist = wishlist[req[r].user],
                                      !.points = PointsEarned(req[r].amount)]]
  /\ UNCHANGED <<orders, points, wishlist, resp, acked, amt, products, stripe, accounts, auth>>

\* const user = await User.findById(req.user._id);
\* const pointsEarned = Math.floor(amount / 1000) * 10;
\* user.points += pointsEarned;
\* (the two synchronous statements run in the same turn as the load resolves)
UserFindById(r) ==
  /\ req[r].op = "placeOrder" /\ req[r].pc = "findUser"
  /\ req' = [req EXCEPT ![r].pc = "save",
                        ![r].doc = [NoDoc EXCEPT !.loaded = TRUE,
                                      !.wishlist = wishlist[req[r].user],
                                      !.points = points[req[r].user] + PointsEarned(req[r].amount)]]
  /\ UNCHANGED <<orders, points, wishlist, resp, acked, amt, products, stripe, accounts, auth>>

\* faulty variant: a failed user load is answered on its own terms
UserFindByIdFailNotFound(r) ==
  /\ req[r].op = "placeOrder" /\ req[r].pc = "findUser"
  /\ req' = [req EXCEPT ![r] = Idle]
  /\ resp' = [Outcome(r, 404, "findUser", <<>>) EXCEPT !.message = "User not found"]
  /\ UNCHANGED <<orders, points, wishlist, acked, amt, products, stripe, accounts, auth>>

\* User.findById rejects (or resolves to null, so that user.points throws): catch -> 400
UserFindByIdFail(r) ==
  /\ req[r].op = "placeOrder" /\ req[r].pc = "findUser"
  /\ req' = [req EXCEPT ![r] = Idle]
  /\ resp' = OrderFailed(r, "findUser")
  /\ UNCHANGED <<orders, points, wishlist, acked, amt, products, stripe, accounts, auth>>

\* faulty variant: the points write is not restricted to the owner's document
UserSavePointsWholeCollection(r) ==
  /\ req[r].op = "placeOrder" /\ req[r].pc = "save"
  /\ points' = [u \in Users |-> req[r].doc.points]
  /\ acked' = acked \cup {req[r].order}
  /\ req' = [req EXCEPT ![r] = Idle]
  /\ resp' = Outcome(r, 201, "none", <<req[r].order>>)
  /\ UNCHANGED <<orders, wishlist, amt, products, stripe, accounts, auth>>

\* await user.save(); res.status(201).json(order);
\* save() writes the modified paths of the loaded document only: here
\* { $set: { points: <loaded value + pointsEarned> } }, and nothing at all when
\* pointsEarned = 0 left the path unmodified.
UserSavePoints(r) ==
  /\ req[r].op = "placeOrder" /\ req[r].pc = "save"
  /\ points' = IF PointsEarned(req[r].amount) # 0
               THEN [points EXCEPT ![req[r].user] = req[r].doc.points]
               ELSE points
  /\ accounts' = Saved(req[r].user)
  /\ acked' = acked \cup {req[r].order}
  /\ req' = [req EXCEPT ![r] = Idle]
  /\ resp' = Outcome(r, 201, "none", <<req[r].order>>)
  /\ UNCHANGED <<orders, wishlist, amt, products, stripe, auth>>

\* faulty variant: the catch block deletes the Order that was created
UserSavePointsFailDeletesOrder(r) ==
  /\ req[r].op = "placeOrder" /\ req[r].pc = "save"
  /\ orders' = SubSeq(orders, 1, req[r].order - 1)
                  \o SubSeq(orders, req[r].order + 1, Len(orders))
  /\ req' = [req EXCEPT ![r] = Idle]
  /\ resp' = OrderFailed(r, "save")
  /\ UNCHANGED <<points, wishlist, acked, amt, products, stripe, accounts, auth>>

\* user.save() rejects: catch -> 400; the Order stays persisted
UserSavePointsFail(r) ==
  /\ req[r].op = "placeOrder" /\ req[r].pc = "save"
  /\ req' = [req EXCEPT ![r] = Idle]
  /\ resp' = OrderFailed(r, "save")
  /\ UNCHANGED <<orders, points, wishlist, acked, amt, products, stripe, accounts, auth>>

\* -------------------------------------------------------- getOrders
\* const orders = await Order.find({ user: req.user._id }); res.json(orders);
\* (one store read: the request begins and ends in this step)
GetOrders(u) ==
  /\ resp' = [NoResp EXCEPT !.op = "getOrders", !.user = u, !.status = 200,
                            !.body = OrdersOf(u)]
  /\ UNCHANGED <<orders, points, wishlist, req, acked, amt, products, stripe, accounts, auth>>

\* --------------------------------------------------- specifications
PlaceOrderStep(r) ==
  \/ OrderCreate(r)
  \/ OrderCreateFail(r)
  \/ UserFindById(r)
  \/ UserFindByIdFail(r)
  \/ UserSavePoints(r)
  \/ UserSavePointsFail(r)

\* the order component under concurrent requests
OrderNext ==
  \/ \E r \in Reqs, u \in Users, a \in Amounts :
        Len(orders) + Pending < MaxConcOrders /\ PlaceOrderStart(r, u, a)
  \/ \E r \in Reqs : PlaceOrderStep(r)
  \/ \E u \in Users : GetOrders(u)

OrderSpec == Init /\ [][OrderNext]_vars

\* Orders that can exist in RaceSpec
MaxRaceOrders == 2

\* req.body.amount in RaceSpec; orderSchema declares amount as a Number and
\* no validator keeps it from being negative
RaceAmounts == {-1000, 1000, 2000}

\* the user whose requests RaceSpec serves
Racers == {"u2"}

\* one user's placeOrder requests served concurrently
RaceNext ==
  \/ \E r \in Reqs, u \in Racers, a \in RaceAmounts :
        Len(orders) + Pending < MaxRaceOrders /\ PlaceOrderStart(r, u, a)
  \/ \E r \in Reqs : PlaceOrderStep(r)

RaceSpec == Init /\ [][RaceNext]_vars

\* request bodies that conform to orderSchema: carts of items (product, size,
\* color, quantity), a shipping address, a payment intent id, with or without
\* the fields user and status
ItemLists ==
  {<<[product |-> "p1", size |-> "M", color |-> "black", quantity |-> 1]>>,
   <<[product |-> "p2", size |-> "L", color |-> "white", quantity |-> 2],
     [product |-> "p1", size |-> "M", color |-> "black", quantity |-> 1]>>}
ShippingInfos ==
  {[name |-> "Asha", address |-> "12 MG Road", city |-> "Pune", state |-> "MH",
    postalCode |-> "411001", country |-> "IN"]}
PaymentIntents == {"pi_1", "pi_2"}
Bodies ==
  [items : ItemLists, shippingInfo : ShippingInfos, paymentIntent : PaymentIntents,
   user : {"absent"} \cup Users, status : {"absent", "Delivered"}]

\* placeOrder over the request bodies, when every request runs to its
\* response before the next one is accepted
BodySeqNext ==
  \/ \E r \in Reqs, u \in Users, a \in Amounts, body \in Bodies :
        /\ NoneInFlight /\ Len(orders) < MaxBodyOrders
        /\ PlaceOrderRequest(r, u, a, body)
  \/ \E r \in Reqs : PlaceOrderStep(r)

BodySeqSpec == Init /\ [][BodySeqNext]_vars

\* the order component when every request runs to its response before the
\* next one is accepted
OrderSeqNext ==
  \/ \E r \in Reqs, u \in Users, a \in Amounts :
        NoneInFlight /\ Len(orders) < MaxOrders /\ PlaceOrderStart(r, u, a)
  \/ \E r \in Reqs : PlaceOrderStep(r)
  \/ \E u \in Users : NoneInFlight /\ GetOrders(u)

OrderSeqSpec == Init /\ [][OrderSeqNext]_vars

\* ---------------------------------------------------------- wishlist
\* faulty variant: the membership test never finds the product
IncludesNever(list, productId) == FALSE

\* user.wishlist.includes(productId)
Includes(list, productId) == \E i \in 1..Len(list) : list[i] = productId

\* faulty variant: wishlist.splice(wishlist.indexOf(productId), 1), which
\* removes the last entry when productId is absent (index -1)
FilterSplices(list, productId) ==
  LET at == IF \E i \in 1..Len(list) : list[i] = productId
            THEN CHOOSE i \in 1..Len(list) :
                   list[i] = productId /\ \A j \in 1..(i - 1) : list[j] # productId
            ELSE Len(list)
  IN  [i \in 1..(IF Len(list) = 0 THEN 0 ELSE Len(list) - 1) |->
         IF i < at THEN list[i] ELSE list[i + 1]]

\* faulty variant: === in place of !== in the filter
FilterKeepsOnly(list, productId) == SelectSeq(list, LAMBDA id : id = productId)

\* user.wishlist.filter(id => id.toString() !== productId)
Filter(list, productId) == SelectSeq(list, LAMBDA id : id # productId)

\* A save that changes the wishlist array increments the stored document's
\* version: every other loaded copy of that user is stale from then on.
Outdate(r, u) ==
  [q \in Reqs |->
     IF q = r THEN Idle
     ELSE IF req[q].doc.loaded /\ req[q].user = u
          THEN [req[q] EXCEPT !.doc.stale = TRUE]
          ELSE req[q]]

\* router.post('/:productId', protect, addToWishlist)
AddToWishlistStart(r, u, p) ==
  /\ Accepts(r)
  /\ req' = [req EXCEPT ![r] = [Idle EXCEPT !.op = "addToWishlist", !.pc = "findUser",
                                            !.user = u, !.productId = p,
                                            !.pre = Snapshot(wishlist[u])]]
  /\ UNCHANGED <<orders, points, wishlist, resp, acked, amt, products, stripe, accounts, auth>>

\* const user = await User.findById(req.user._id);
\* if (!user.wishlist.includes(productId)) { user.wishlist.push(productId); await user.save(); }
\* res.json({ wishlist: user.wishlist });
AddToWishlistFind(r) ==
  /\ req[r].op = "addToWishlist" /\ req[r].pc = "findUser"
  /\ LET u == req[r].user
         p == req[r].productId
     IN  IF Includes(wishlist[u], p)
         THEN /\ req' = [req EXCEPT ![r] = Idle]
              /\ resp' = Outcome(r, 200, "none", wishlist[u])
         ELSE /\ req' = [req EXCEPT ![r].pc = "save",
                                    ![r].doc = [NoDoc EXCEPT !.loaded = TRUE,
                                                  !.points = points[u],
                                                  !.wishlist = Append(wishlist[u], p),
                                                  !.modified = TRUE]]
              /\ UNCHANGED resp
  /\ UNCHANGED <<orders, points, wishlist, acked, amt, products, stripe, accounts, auth>>

\* faulty variant: save() writes the whole loaded document back
AddToWishlistSaveWholeDocument(r) ==
  /\ req[r].op = "addToWishlist" /\ req[r].pc = "save"
  /\ wishlist' = [wishlist EXCEPT ![req[r].user] = req[r].doc.wishlist]
  /\ points' = [points EXCEPT ![req[r].user] = req[r].doc.points]
  /\ req' = Outdate(r, req[r].user)
  /\ resp' = Outcome(r, 200, "none", req[r].doc.wishlist)
  /\ UNCHANGED <<orders, acked, amt, products, stripe, accounts, auth>>

\* save() of a pushed array sends { $push: { wishlist: productId } }: the
\* element is appended to the array as stored, and the version is incremented
AddToWishlistSave(r) ==
  /\ req[r].op = "addToWishlist" /\ req[r].pc = "save"
  /\ wishlist' = [wishlist EXCEPT ![req[r].user] = Append(@, req[r].productId)]
  /\ accounts' = Saved(req[r].user)
  /\ req' = Outdate(r, req[r].user)
  /\ resp' = Outcome(r, 200, "none", req[r].doc.wishlist)
  /\ UNCHANGED <<orders, points, acked, amt, products, stripe, auth>>

\* a store operation of the handler rejects; the handler has no try/catch, so
\* no response is sent (status 0)
AddToWishlistFail(r) ==
  /\ req[r].op = "addToWishlist" /\ req[r].pc \in {"findUser", "save"}
  /\ req' = [req EXCEPT ![r] = Idle]
  /\ resp' = Outcome(r, 0, req[r].pc, <<>>)
  /\ UNCHANGED <<orders, points, wishlist, acked, amt, products, stripe, accounts, auth>>

\* router.delete('/:productId', protect, removeFromWishlist)
RemoveFromWishlistStart(r, u, p) ==
  /\ Accepts(r)
  /\ req' = [req EXCEPT ![r] = [Idle EXCEPT !.op = "removeFromWishlist", !.pc = "findUser",
                                            !.user = u, !.productId = p,
                                            !.pre = Snapshot(wishlist[u])]]
  /\ UNCHANGED <<orders, points, wishlist, resp, acked, amt, products, stripe, accounts, auth>>

\* const user = await User.findById(req.user._id);
\* user.wishlist = user.wishlist.filter(id => id.toString() !== productId);
\* (assigning an array equal to the loaded one leaves the path unmodified)
RemoveFromWishlistFind(r) ==
  /\ req[r].op = "removeFromWishlist" /\ req[r].pc = "findUser"
  /\ LET u == req[r].user
         kept == Filter(wishlist[u], req[r].productId)
     IN  req' = [req EXCEPT ![r].pc = "save",
                            ![r].doc = [NoDoc EXCEPT !.loaded = TRUE,
                                          !.points = points[u],
                                          !.wishlist = kept,
                                          !.modified = (kept # wishlist[u])]]
  /\ UNCHANGED <<orders, points, wishlist, resp, acked, amt, products, stripe, accounts, auth>>

\* await user.save(); res.json({ wishlist: user.wishlist });
\* An unmodified document writes nothing.  An assigned array is written whole,
\* { $set: { wishlist: [...] } }, under the condition that the stored version
\* is still the loaded one; otherwise save() rejects with a VersionError.
RemoveFromWishlistSave(r) ==
  /\ req[r].op = "removeFromWishlist" /\ req[r].pc = "save"
  /\ LET u == req[r].user
         doc == req[r].doc
     IN  IF ~doc.modified
         THEN /\ req' = [req EXCEPT ![r] = Idle]
              /\ resp' = Outcome(r, 200, "none", doc.wishlist)
              /\ accounts' = Saved(u)
              /\ UNCHANGED wishlist
         ELSE IF doc.stale
         THEN /\ req' = [req EXCEPT ![r] = Idle]
              /\ resp' = Outcome(r, 0, "version", <<>>)
              /\ UNCHANGED <<wishlist, accounts>>
         ELSE /\ wishlist' = [wishlist EXCEPT ![u] = doc.wishlist]
              /\ accounts' = Saved(u)
              /\ req' = Outdate(r, u)
              /\ resp' = Outcome(r, 200, "none", doc.wishlist)
  /\ UNCHANGED <<orders, points, acked, amt, products, stripe, auth>>

RemoveFromWishlistFail(r) ==
  /\ req[r].op = "removeFromWishlist" /\ req[r].pc \in {"findUser", "save"}
  /\ req' = [req EXCEPT ![r] = Idle]
  /\ resp' = Outcome(r, 0, req[r].pc, <<>>)
  /\ UNCHANGED <<orders, points, wishlist, acked, amt, products, stripe, accounts, auth>>

WishlistStep(r) ==
  \/ AddToWishlistFind(r)
  \/ AddToWishlistSave(r)
  \/ AddToWishlistFail(r)
  \/ RemoveFromWishlistFind(r)
  \/ RemoveFromWishlistSave(r)
  \/ RemoveFromWishlistFail(r)

\* the wishlist handlers when every request runs to its response before the
\* next one is accepted
WishSeqNext ==
  \/ \E r \in Reqs, u \in Users, p \in Products :
        NoneInFlight /\ AddToWishlistStart(r, u, p)
  \/ \E r \in Reqs, u \in Users, p \in Products :
        NoneInFlight /\ RemoveFromWishlistStart(r, u, p)
  \/ \E r \in Reqs : WishlistStep(r)

WishSeqSpec == Init /\ [][WishSeqNext]_vars

\* the stored wishlist holds at most MaxWishLen entries in WishConcSpec
MaxWishLen == 2

\* the user whose requests WishConcSpec serves
Wishers == {"u2"}

\* addToWishlist requests that have not answered yet
AddsInFlight ==
  Cardinality({r \in Reqs : InFlight(r) /\ req[r].op = "addToWishlist"})

\* no request, or one request only, has not answered yet
AtMostOneInFlight == \A q, r \in Reqs : InFlight(q) /\ InFlight(r) => q = r

\* one user's wishlist requests served two at a time: the steps of the two
\* requests interleave at every await
WishConcNext ==
  \/ \E r \in Reqs, u \in Wishers, p \in Products :
        /\ AtMostOneInFlight
        /\ Len(wishlist[u]) + AddsInFlight < MaxWishLen
        /\ AddToWishlistStart(r, u, p)
  \/ \E r \in Reqs, u \in Wishers, p \in Products :
        AtMostOneInFlight /\ RemoveFromWishlistStart(r, u, p)
  \/ \E r \in Reqs : WishlistStep(r)

WishConcSpec == Init /\ [][WishConcNext]_vars

\* ---------------------------------------------------------- products
\* req.body of updateProduct: a new name, or inStock switched off
Patches ==
  {[NoPatch EXCEPT !.fields = {"name"}, !.name = n] : n \in Names}
    \cup {[NoPatch EXCEPT !.fields = {"inStock"}]}

\* res.status(404).json({ message: 'Product not found' })
ProductNotFound == "Product not found"

\* Object.assign(product, req.body)
Assign(product, body) ==
  [product EXCEPT !.name = IF "name" \in body.fields THEN body.name ELSE @,
                  !.inStock = IF "inStock" \in body.fields THEN body.inStock ELSE @]

\* the answer of a guard that does not call next(): protect answers 401 when
\* the token is absent or rejected, or when its own User.findById rejects
ProtectRejects(op, t) ==
  /\ NoneInFlight
  /\ \/ /\ Protect(t) = Unauthorized
        /\ resp' = [NoResp EXCEPT !.op = op, !.status = 401, !.failedAt = "token"]
     \/ /\ Protect(t) \in Users
        /\ resp' = [NoResp EXCEPT !.op = op, !.status = 401, !.failedAt = "findUser"]
  /\ UNCHANGED <<orders, points, wishlist, req, acked, amt, products, stripe, accounts, auth>>

\* admin answers 403 when req.user is not an administrator
AdminRejects(op, t) ==
  /\ NoneInFlight
  /\ Protect(t) \in Users
  /\ ~Admin(Protect(t))
  /\ resp' = [NoResp EXCEPT !.op = op, !.user = Protect(t), !.status = 403,
                            !.failedAt = "admin"]
  /\ UNCHANGED <<orders, points, wishlist, req, acked, amt, products, stripe, accounts, auth>>

\* router.post('/product', protect, admin, createProduct); req.body is body
CreateProductRequest(r, t, body) ==
  /\ Accepts(r)
  /\ Protect(t) \in Users
  /\ Admin(Protect(t))
  /\ \E p \in Products : products[p].state = "none"
  /\ req' = [req EXCEPT ![r] = [Idle EXCEPT !.op = "createProduct", !.pc = "createProduct",
                                            !.user = Protect(t),
                                            !.patch = body]]
  /\ UNCHANGED <<orders, points, wishlist, resp, acked, amt, products, stripe, accounts, auth>>

\* a createProduct request whose body names the product only
CreateProductStart(r, t, n) == CreateProductRequest(r, t, [NoPatch EXCEPT !.name = n])

\* req.body of createProduct: a name and possibly an inStock of its own
CreateBodies ==
  {[fields |-> {"name"} \cup extra, name |-> n, inStock |-> FALSE] :
     n \in Names, extra \in {{}, {"inStock"}}}

\* faulty variant: the document is built from the whole body
CreateProductSpreadsBody(r) ==
  /\ req[r].op = "createProduct" /\ req[r].pc = "createProduct"
  /\ \E p \in Products :
        /\ products[p].state = "none"
        /\ products' = [products EXCEPT ![p] =
                          Assign([NoProduct EXCEPT !.state = "stored", !.inStock = TRUE],
                                 req[r].patch)]
        /\ resp' = [Outcome(r, 201, "none", <<p>>) EXCEPT !.productId = p]
  /\ req' = [req EXCEPT ![r] = Idle]
  /\ UNCHANGED <<orders, points, wishlist, acked, amt, stripe, accounts, auth>>

\* const { name, ... } = req.body;   (inStock is not taken from the body)
\* const product = await Product.create({ ..., inStock: true });
\* res.status(201).json(product);   (the store picks an id never used before)
CreateProduct(r) ==
  /\ req[r].op = "createProduct" /\ req[r].pc = "createProduct"
  /\ \E p \in Products :
        /\ products[p].state = "none"
        /\ products' = [products EXCEPT ![p] = [NoProduct EXCEPT
                                                  !.state = "stored",
                                                  !.name = req[r].patch.name,
                                                  !.inStock = TRUE]]
        /\ resp' = [Outcome(r, 201, "none", <<p>>) EXCEPT !.productId = p]
  /\ req' = [req EXCEPT ![r] = Idle]
  /\ UNCHANGED <<orders, points, wishlist, acked, amt, stripe, accounts, auth>>

\* (update and delete are mounted like create: protect, admin)
UpdateProductStart(r, t, p, body) ==
  /\ Accepts(r)
  /\ Protect(t) \in Users
  /\ Admin(Protect(t))
  /\ req' = [req EXCEPT ![r] = [Idle EXCEPT !.op = "updateProduct", !.pc = "findProduct",
                                            !.user = Protect(t), !.productId = p,
                                            !.patch = body]]
  /\ UNCHANGED <<orders, points, wishlist, resp, acked, amt, products, stripe, accounts, auth>>

\* const product = await Product.findById(req.params.id);
\* if (!product) return res.status(404).json({ message: 'Product not found' });
\* Object.assign(product, req.body);
UpdateProductFind(r) ==
  /\ req[r].op = "updateProduct" /\ req[r].pc = "findProduct"
  /\ IF products[req[r].productId].state # "stored"
     THEN /\ req' = [req EXCEPT ![r] = Idle]
          /\ resp' = [Outcome(r, 404, "none", <<>>) EXCEPT !.message = ProductNotFound]
     ELSE /\ req' = [req EXCEPT ![r].pc = "saveProduct"]
          /\ UNCHANGED resp
  /\ UNCHANGED <<orders, points, wishlist, acked, amt, products, stripe, accounts, auth>>

\* await product.save(); res.json(product);
\* save() writes the assigned paths to the stored document and rejects when
\* the document is no longer stored
UpdateProductSave(r) ==
  /\ req[r].op = "updateProduct" /\ req[r].pc = "saveProduct"
  /\ LET p == req[r].productId
     IN  IF products[p].state # "stored"
         THEN /\ resp' = Outcome(r, 0, "saveProduct", <<>>)
              /\ UNCHANGED products
         ELSE /\ products' = [products EXCEPT ![p] = Assign(@, req[r].patch)]
              /\ resp' = Outcome(r, 200, "none", <<p>>)
  /\ req' = [req EXCEPT ![r] = Idle]
  /\ UNCHANGED <<orders, points, wishlist, acked, amt, stripe, accounts, auth>>

DeleteProductStart(r, t, p) ==
  /\ Accepts(r)
  /\ Protect(t) \in Users
  /\ Admin(Protect(t))
  /\ req' = [req EXCEPT ![r] = [Idle EXCEPT !.op = "deleteProduct", !.pc = "findProduct",
                                            !.user = Protect(t), !.productId = p]]
  /\ UNCHANGED <<orders, points, wishlist, resp, acked, amt, products, stripe, accounts, auth>>

\* const product = await Product.findById(req.params.id);
\* if (!product) return res.status(404).json({ message: 'Product not found' });
DeleteProductFind(r) ==
  /\ req[r].op = "deleteProduct" /\ req[r].pc = "findProduct"
  /\ IF products[req[r].productId].state # "stored"
     THEN /\ req' = [req EXCEPT ![r] = Idle]
          /\ resp' = [Outcome(r, 404, "none", <<>>) EXCEPT !.message = ProductNotFound]
     ELSE /\ req' = [req EXCEPT ![r].pc = "removeProduct"]
          /\ UNCHANGED resp
  /\ UNCHANGED <<orders, points, wishlist, acked, amt, products, stripe, accounts, auth>>

\* faulty variant: the removal also pulls the id from every wishlist
DeleteProductRemovePulls(r) ==
  /\ req[r].op = "deleteProduct" /\ req[r].pc = "removeProduct"
  /\ products' = [products EXCEPT ![req[r].productId] = [NoProduct EXCEPT !.state = "removed"]]
  /\ wishlist' = [u \in Users |-> Filter(wishlist[u], req[r].productId)]
  /\ req' = [req EXCEPT ![r] = Idle]
  /\ resp' = Outcome(r, 200, "none", <<>>)
  /\ UNCHANGED <<orders, points, acked, amt, stripe, accounts, auth>>

\* await product.remove(); res.json({ message: 'Product removed' });
\* (the document is deleted from the products collection; its id is not
\* given to a later product)
DeleteProductRemove(r) ==
  /\ req[r].op = "deleteProduct" /\ req[r].pc = "removeProduct"
  /\ products' = [products EXCEPT ![req[r].productId] = [NoProduct EXCEPT !.state = "removed"]]
  /\ req' = [req EXCEPT ![r] = Idle]
  /\ resp' = Outcome(r, 200, "none", <<>>)
  /\ UNCHANGED <<orders, points, wishlist, acked, amt, stripe, accounts, auth>>

\* a store operation of a product handler rejects; the handlers have no
\* try/catch, so no response is sent (status 0)
ProductFail(r) ==
  /\ req[r].op \in {"createProduct", "updateProduct", "deleteProduct"}
  /\ InFlight(r)
  /\ req' = [req EXCEPT ![r] = Idle]
  /\ resp' = Outcome(r, 0, req[r].pc, <<>>)
  /\ UNCHANGED <<orders, points, wishlist, acked, amt, products, stripe, accounts, auth>>

ProductStep(r) ==
  \/ CreateProduct(r)
  \/ UpdateProductFind(r)
  \/ UpdateProductSave(r)
  \/ DeleteProductFind(r)
  \/ DeleteProductRemove(r)
  \/ ProductFail(r)

AdminOps == {"createProduct", "updateProduct", "deleteProduct"}

\* product creation and removal next to addToWishlist, when every request runs
\* to its response before the next one is accepted
CatalogSeqNext ==
  \/ \E r \in Reqs, t \in Tokens, n \in Names :
        NoneInFlight /\ CreateProductStart(r, t, n)
  \/ \E r \in Reqs : CreateProduct(r)
  \/ \E r \in Reqs, t \in Tokens, p \in Products :
        NoneInFlight /\ DeleteProductStart(r, t, p)
  \/ \E r \in Reqs : DeleteProductFind(r)
  \/ \E r \in Reqs : DeleteProductRemove(r)
  \/ \E r \in Reqs : ProductFail(r)
  \/ \E r \in Reqs, u \in Users, p \in Products :
        NoneInFlight /\ AddToWishlistStart(r, u, p)
  \/ \E r \in Reqs : AddToWishlistFind(r)
  \/ \E r \in Reqs : AddToWishlistSave(r)
  \/ \E r \in Reqs : AddToWishlistFail(r)

CatalogSeqSpec == Init /\ [][CatalogSeqNext]_vars

\* the product routes behind protect and admin, when every request runs to
\* its response before the next one is accepted
AdminSeqNext ==
  \/ \E r \in Reqs, t \in Tokens, n \in Names :
        NoneInFlight /\ CreateProductStart(r, t, n)
  \/ \E r \in Reqs, t \in Tokens, p \in Products, body \in Patches :
        NoneInFlight /\ UpdateProductStart(r, t, p, body)
  \/ \E r \in Reqs, t \in Tokens, p \in Products :
        NoneInFlight /\ DeleteProductStart(r, t, p)
  \/ \E r \in Reqs : ProductStep(r)
  \/ \E op \in AdminOps, t \in Tokens : ProtectRejects(op, t)
  \/ \E op \in AdminOps, t \in Tokens : AdminRejects(op, t)

AdminSeqSpec == Init /\ [][AdminSeqNext]_vars

\* const product = await Product.findById(req.params.id);
\* if (product) res.json(product);
\* else res.status(404).json({ message: 'Product not found' });
\* (one store read: the request begins and ends in this step)
GetProductById(p) ==
  /\ resp' = IF products[p].state = "stored"
             THEN [NoResp EXCEPT !.op = "getProductById", !.productId = p,
                                 !.status = 200, !.body = <<p>>]
             ELSE [NoResp EXCEPT !.op = "getProductById", !.productId = p,
                                 !.status = 404, !.message = ProductNotFound]
  /\ UNCHANGED <<orders, points, wishlist, req, acked, amt, products, stripe,
                 accounts, auth>>

\* Product.findById rejects: no try/catch, no response
GetProductByIdFail(p) ==
  /\ resp' = [NoResp EXCEPT !.op = "getProductById", !.productId = p,
                            !.failedAt = "findProduct"]
  /\ UNCHANGED <<orders, points, wishlist, req, acked, amt, products, stripe,
                 accounts, auth>>

\* the product handlers, one request at a time
ProductSeqNext ==
  \/ \E r \in Reqs, t \in Tokens, body \in CreateBodies :
        NoneInFlight /\ CreateProductRequest(r, t, body)
  \/ \E r \in Reqs, t \in Tokens, p \in Products, body \in Patches :
        NoneInFlight /\ UpdateProductStart(r, t, p, body)
  \/ \E r \in Reqs, t \in Tokens, p \in Products :
        NoneInFlight /\ DeleteProductStart(r, t, p)
  \/ \E r \in Reqs : ProductStep(r)
  \/ \E p \in Products : NoneInFlight /\ GetProductById(p)
  \/ \E p \in Products : NoneInFlight /\ GetProductByIdFail(p)

ProductSeqSpec == Init /\ [][ProductSeqNext]_vars

\* -------------------------------------------------- protected routes
\* router.post('/', protect, placeOrder), router.get('/', protect, getOrders),
\* router.post('/:productId', protect, addToWishlist),
\* router.delete('/:productId', protect, removeFromWishlist)
ProtectedOps == {"placeOrder", "getOrders", "addToWishlist", "removeFromWishlist"}

\* the users a token was issued to, and the headers clients can present:
\* nobody holds a token issued to another user
TokenHolders == {"u1"}
Presented == {t \in Tokens : t.kind = "valid" => t.id \in TokenHolders}

\* the protected routes when every request runs to its response before the
\* next one is accepted
AuthSeqNext ==
  \/ \E op \in ProtectedOps, t \in Presented : ProtectRejects(op, t)
  \/ \E r \in Reqs, t \in Presented, a \in Amounts :
        /\ NoneInFlight /\ Len(orders) < MaxAuthOrders
        /\ Protect(t) \in Users
        /\ PlaceOrderStart(r, Protect(t), a)
  \/ \E t \in Presented :
        NoneInFlight /\ Protect(t) \in Users /\ GetOrders(Protect(t))
  \/ \E r \in Reqs, t \in Presented, p \in Products :
        NoneInFlight /\ Protect(t) \in Users /\ AddToWishlistStart(r, Protect(t), p)
  \/ \E r \in Reqs, t \in Presented, p \in Products :
        NoneInFlight /\ Protect(t) \in Users /\ RemoveFromWishlistStart(r, Protect(t), p)
  \/ \E r \in Reqs : PlaceOrderStep(r)
  \/ \E r \in Reqs : WishlistStep(r)

AuthSeqSpec == Init /\ [][AuthSeqNext]_vars

\* ------------------------------------------------------ getProducts
\* req.query: keyword (a regular expression, character by character, "."
\* standing for any character), category, color and size; the empty value
\* stands for a parameter that is omitted or empty
Keywords == {<<>>, <<"h", "A">>, <<"E">>, <<".", "e">>}
Categories == {"", "tops", "hats"}
Colors == {"", "red", "blue"}
Sizes == {"", "M"}
Queries == [keyword : Keywords, category : Categories, color : Colors, size : Sizes]

\* the Products the catalog can hold when the queries are evaluated
ProductDocs ==
  {NoProduct,
   [NoProduct EXCEPT !.state = "removed"],
   [state |-> "stored", name |-> <<"T", "e", "e">>, category |-> "tops",
    colors |-> {"red", "blue"}, sizes |-> {"M"}, inStock |-> TRUE],
   [state |-> "stored", name |-> <<"T", "e", "e">>, category |-> "tops",
    colors |-> {"blue"}, sizes |-> {}, inStock |-> TRUE],
   [state |-> "stored", name |-> <<"H", "a", "t">>, category |-> "hats",
    colors |-> {"red"}, sizes |-> {"M"}, inStock |-> FALSE]}

\* $options: 'i': letters compare without regard to case
Lower(c) ==
  CASE c = "T" -> "t" [] c = "H" -> "h" [] c = "A" -> "a" [] c = "E" -> "e"
    [] OTHER -> c

\* { $regex: keyword, $options: 'i' }: the pattern matches somewhere inside name
RegexMatches(keyword, name) ==
  \E start \in 0..(Len(name) - Len(keyword)) :
    \A i \in 1..Len(keyword) :
      keyword[i] = "." \/ Lower(keyword[i]) = Lower(name[start + i])

\* faulty variant: the conditions are alternatives ($or)
SelectsAny(product, query) ==
  \/ query.keyword # <<>> /\ RegexMatches(query.keyword, product.name)
  \/ query.category # "" /\ product.category = query.category
  \/ query.color # "" /\ query.color \in product.colors
  \/ query.size # "" /\ query.size \in product.sizes
  \/ query = [keyword |-> <<>>, category |-> "", color |-> "", size |-> ""]

\* const filter = {};
\* if (keyword) filter.name = { $regex: keyword, $options: 'i' };
\* if (category) filter.category = category;
\* if (color) filter.colors = color;      (an array field matches by membership)
\* if (size) filter.sizes = size;
Selects(product, query) ==
  /\ query.keyword # <<>> => RegexMatches(query.keyword, product.name)
  /\ query.category # "" => product.category = query.category
  /\ query.color # "" => query.color \in product.colors
  /\ query.size # "" => query.size \in product.sizes

\* the catalog holds any of the Products
FilterInit ==
  /\ orders = <<>>
  /\ points = [u \in Users |-> DefaultPoints]
  /\ wishlist = [u \in Users |-> <<>>]
  /\ req = [r \in Reqs |-> Idle]
  /\ resp = NoResp
  /\ acked = {}
  /\ amt = NoAmount
  /\ products \in [Products -> ProductDocs]
  /\ stripe = NoCall
  /\ accounts = Registered
  /\ auth = AuthMounted

\* const products = await Product.find(filter); res.json(products);
\* (one store read: the request begins and ends in this step)
GetProducts(query) ==
  /\ resp' = [NoResp EXCEPT !.op = "getProducts", !.status = 200,
                            !.input = <<query>>,
                            !.body = {p \in Products : /\ products[p].state = "stored"
                                                      /\ Selects(products[p], query)}]
  /\ UNCHANGED <<orders, points, wishlist, req, acked, amt, products, stripe,
                 accounts, auth>>

FilterNext == \E query \in Queries : GetProducts(query)

FilterSpec == FilterInit /\ [][FilterNext]_vars

\* ----------------------------------------------- register and login
\* generateToken(id): jwt.sign({ id }, secret): a token protect accepts for id
GenerateToken(id) == [kind |-> "valid", id |-> id]

\* the stored users with a given email: User.findOne({ email })
WithEmail(email) ==
  {u \in Users : accounts[u].state = "stored" /\ accounts[u].email = email}

\* registerUser requests that may still create a User
Registering ==
  Cardinality({r \in Reqs : req[r].op = "registerUser" /\ InFlight(r)})

\* no user is registered yet
RegInit ==
  /\ orders = <<>>
  /\ points = [u \in Users |-> DefaultPoints]
  /\ wishlist = [u \in Users |-> <<>>]
  /\ req = [r \in Reqs |-> Idle]
  /\ resp = NoResp
  /\ acked = {}
  /\ amt = NoAmount
  /\ products = [p \in Products |-> NoProduct]
  /\ stripe = NoCall
  /\ accounts = [u \in Users |-> NoAccount]
  /\ auth = AuthMounted

\* router.post('/register', registerUser)
\* const { name, email, password } = req.body;
RegisterUserStart(r, email, password) ==
  /\ Accepts(r)
  /\ Cardinality({u \in Users : accounts[u].state = "none"}) > Registering
  /\ req' = [req EXCEPT ![r] = [Idle EXCEPT !.op = "registerUser", !.pc = "findEmail",
                                            !.input = <<email, password>>]]
  /\ UNCHANGED <<orders, points, wishlist, resp, acked, amt, products, stripe,
                 accounts, auth>>

\* const userExists = await User.findOne({ email });
\* if (userExists) return res.status(400).json({ message: 'User already exists' });
RegisterUserFindOne(r) ==
  /\ req[r].op = "registerUser" /\ req[r].pc = "findEmail"
  /\ IF WithEmail(req[r].input[1]) # {}
     THEN /\ req' = [req EXCEPT ![r] = Idle]
          /\ resp' = [Outcome(r, 400, "none", <<>>) EXCEPT
                        !.message = "User already exists"]
     ELSE /\ req' = [req EXCEPT ![r].pc = "createUser"]
          /\ UNCHANGED resp
  /\ UNCHANGED <<orders, points, wishlist, acked, amt, products, stripe,
                 accounts, auth>>

\* faulty variant: the collection has no unique index on email
UserCreateNoIndex(r) ==
  /\ req[r].op = "registerUser" /\ req[r].pc = "createUser"
  /\ \E u \in Users :
        /\ accounts[u].state = "none"
        /\ accounts' = [accounts EXCEPT ![u] =
                          [NoAccount EXCEPT !.state = "stored",
                                            !.name = u,
                                            !.email = req[r].input[1],
                                            !.password = HashOf(req[r].input[2])]]
        /\ points' = [points EXCEPT ![u] = DefaultPoints]
        /\ wishlist' = [wishlist EXCEPT ![u] = <<>>]
        /\ resp' = [Outcome(r, 200, "none", <<GenerateToken(u)>>) EXCEPT !.user = u]
  /\ req' = [req EXCEPT ![r] = Idle]
  /\ UNCHANGED <<orders, acked, amt, products, stripe, auth>>

\* const user = await User.create({ name, email, password });
\* res.json({ _id, name, email, token: generateToken(user._id) });
\* email: { type: String, unique: true }: the insert is rejected with a
\* duplicate-key error when a stored User has the email; the handler has no
\* try/catch, so no response is sent.  Otherwise the document is stored under
\* a new id with the schema defaults, its password hashed by pre('save').
UserCreate(r) ==
  /\ req[r].op = "registerUser" /\ req[r].pc = "createUser"
  /\ IF WithEmail(req[r].input[1]) # {}
     THEN /\ resp' = Outcome(r, 0, "duplicate", <<>>)
          /\ UNCHANGED <<accounts, points, wishlist>>
     ELSE \E u \in Users :
            /\ accounts[u].state = "none"
            /\ accounts' = [accounts EXCEPT ![u] =
                              [NoAccount EXCEPT !.state = "stored",
                                                !.name = u,
                                                !.email = req[r].input[1],
                                                !.password = HashOf(req[r].input[2])]]
            /\ points' = [points EXCEPT ![u] = DefaultPoints]
            /\ wishlist' = [wishlist EXCEPT ![u] = <<>>]
            /\ resp' = [Outcome(r, 200, "none", <<GenerateToken(u)>>) EXCEPT !.user = u]
  /\ req' = [req EXCEPT ![r] = Idle]
  /\ UNCHANGED <<orders, acked, amt, products, stripe, auth>>

\* a store operation of registerUser rejects for another reason; no response
RegisterUserFail(r) ==
  /\ req[r].op = "registerUser" /\ InFlight(r)
  /\ req' = [req EXCEPT ![r] = Idle]
  /\ resp' = Outcome(r, 0, req[r].pc, <<>>)
  /\ UNCHANGED <<orders, points, wishlist, acked, amt, products, stripe,
                 accounts, auth>>

RegisterStep(r) ==
  \/ RegisterUserFindOne(r)
  \/ UserCreate(r)
  \/ RegisterUserFail(r)

\* faulty variant: the promise of matchPassword is tested without await
MatchPasswordUnawaited(enteredPassword, stored) == TRUE

\* userSchema.methods.matchPassword:
\* return await bcrypt.compare(enteredPassword, this.password)
MatchPassword(enteredPassword, stored) == stored = HashOf(enteredPassword)

\* router.post('/login', loginUser)
\* const user = await User.findOne({ email });
\* if (user && (await user.matchPassword(password)))
\*   res.json({ _id, name, email, token: generateToken(user._id) });
\* else res.status(401).json({ message: 'Invalid email or password' });
\* (one store read: the request begins and ends in this step)
LoginUser(email, password) ==
  /\ \/ \E u \in WithEmail(email) :
          /\ MatchPassword(password, accounts[u].password)
          /\ resp' = [NoResp EXCEPT !.op = "loginUser", !.user = u, !.status = 200,
                                    !.body = <<GenerateToken(u)>>,
                                    !.input = <<email, password>>]
     \/ /\ \/ WithEmail(email) = {}
           \/ \E u \in WithEmail(email) : ~MatchPassword(password, accounts[u].password)
        /\ resp' = [NoResp EXCEPT !.op = "loginUser", !.status = 401,
                                  !.message = "Invalid email or password",
                                  !.input = <<email, password>>]
  /\ UNCHANGED <<orders, points, wishlist, req, acked, amt, products, stripe,
                 accounts, auth>>

\* User.findOne rejects; the handler has no try/catch, so no response is sent
LoginUserFail(email, password) ==
  /\ resp' = [NoResp EXCEPT !.op = "loginUser", !.failedAt = "findEmail",
                            !.input = <<email, password>>]
  /\ UNCHANGED <<orders, points, wishlist, req, acked, amt, products, stripe,
                 accounts, auth>>

\* registration and login under concurrent requests, from an empty User
\* collection
RegNext ==
  \/ \E r \in Reqs, email \in Emails, password \in Passwords :
        RegisterUserStart(r, email, password)
  \/ \E r \in Reqs : RegisterStep(r)
  \/ \E email \in Emails, password \in Passwords : LoginUser(email, password)
  \/ \E email \in Emails, password \in Passwords : LoginUserFail(email, password)

RegSpec == RegInit /\ [][RegNext]_vars

\* ---------------------------------------------------------- payment
\* req.body.cartItems: items with a name, a price in whole currency units and
\* a quantity
Carts ==
  {<<>>,
   <<[name |-> "hoodie", price |-> 20, quantity |-> 2]>>,
   <<[name |-> "tee", price |-> 10, quantity |-> 3],
     [name |-> "hoodie", price |-> 20, quantity |-> 1]>>}

\* the ids the payment provider gives its sessions
Sessions == {"cs_1", "cs_2"}

\* faulty variant: the price is passed on in whole units
LineItemsInUnits(cartItems) ==
  [i \in 1..Len(cartItems) |->
     [name |-> cartItems[i].name, currency |-> "usd",
      unit_amount |-> cartItems[i].price,
      quantity |-> cartItems[i].quantity]]

\* const lineItems = cartItems.map(item => ({ price_data: { currency: 'usd',
\*   product_data: { name: item.name, ... }, unit_amount: item.price * 100 },
\*   quantity: item.quantity }));
LineItems(cartItems) ==
  [i \in 1..Len(cartItems) |->
     [name |-> cartItems[i].name, currency |-> "usd",
      unit_amount |-> cartItems[i].price * 100,
      quantity |-> cartItems[i].quantity]]

\* router.post('/create-checkout-session', createCheckoutSession)
\* const session = await stripe.checkout.sessions.create({ line_items: lineItems, ... });
\* res.json({ id: session.id });
CreateCheckoutSession(cartItems) ==
  /\ stripe' = [cartItems |-> cartItems, line_items |-> LineItems(cartItems),
                called |-> TRUE]
  /\ \E id \in Sessions :
        resp' = [NoResp EXCEPT !.op = "createCheckoutSession", !.status = 200,
                               !.body = <<id>>]
  /\ UNCHANGED <<orders, points, wishlist, req, acked, amt, products, accounts, auth>>

\* the provider call rejects:
\* catch (err) { res.status(500).json({ message: 'Stripe session creation failed' }) }
CreateCheckoutSessionFail(cartItems) ==
  /\ stripe' = [cartItems |-> cartItems, line_items |-> LineItems(cartItems),
                called |-> TRUE]
  /\ resp' = [NoResp EXCEPT !.op = "createCheckoutSession", !.status = 500,
                            !.failedAt = "stripe",
                            !.message = "Stripe session creation failed"]
  /\ UNCHANGED <<orders, points, wishlist, req, acked, amt, products, accounts, auth>>

\* the clients of the specifications that serve several components: one
\* shopper, one product id, one order amount and one cart
SysShoppers == {"u2"}
SysProducts == {"p1"}
SysAmounts == {1500}
SysCarts == {<<[name |-> "hoodie", price |-> 20, quantity |-> 2]>>}

ToggleInFlight ==
  \E r \in Reqs : InFlight(r) /\ req[r].op \in {"addToWishlist", "removeFromWishlist"}

\* one user's wishlist toggles and order placements, a toggle and a placement
\* being served concurrently
MixNext ==
  \/ \E r \in Reqs, u \in SysShoppers, a \in SysAmounts :
        ~PlaceInFlight /\ Len(orders) < MaxMixOrders /\ PlaceOrderStart(r, u, a)
  \/ \E r \in Reqs : PlaceOrderStep(r)
  \/ \E r \in Reqs, u \in SysShoppers, p \in SysProducts :
        ~ToggleInFlight /\ AddToWishlistStart(r, u, p)
  \/ \E r \in Reqs, u \in SysShoppers, p \in SysProducts :
        ~ToggleInFlight /\ RemoveFromWishlistStart(r, u, p)
  \/ \E r \in Reqs : WishlistStep(r)

MixSpec == Init /\ [][MixNext]_vars

\* logins between one user's wishlist toggles and order placements
CredNext ==
  \/ MixNext
  \/ \E email \in Emails, password \in Passwords : LoginUser(email, password)
  \/ \E email \in Emails, password \in Passwords : LoginUserFail(email, password)

CredSpec == Init /\ [][CredNext]_vars

\* ---------------------------------------------------------- Auth page
\* what a visitor types into an input
Texts == {"", "a"}

\* the inputs of the form; firstName, lastName and confirmPassword are
\* rendered in signup mode only ({!isLogin && ...})
LoginInputs == {"email", "password"}
SignupInputs == {"firstName", "lastName", "confirmPassword"}

\* the page after a handler: the fields it set, with the handler recorded
After(handler, page) == [page EXCEPT !.last = handler, !.prev = auth.isLogin]

\* onChange={(e) => setEmail(e.target.value)} and the four like it
SetInput(field, value) ==
  /\ field \in LoginInputs \/ (field \in SignupInputs /\ ~auth.isLogin)
  /\ auth' = After("onChange", [auth EXCEPT ![field] = value])
  /\ UNCHANGED <<orders, points, wishlist, req, resp, acked, amt, products, stripe,
                 accounts>>

\* onClick={() => setShowPassword(!showPassword)}
ToggleShowPassword ==
  /\ auth' = After("onClick", [auth EXCEPT !.showPassword = ~@])
  /\ UNCHANGED <<orders, points, wishlist, req, resp, acked, amt, products, stripe,
                 accounts>>

\* onClick={() => setShowConfirmPassword(!showConfirmPassword)}
ToggleShowConfirmPassword ==
  /\ ~auth.isLogin
  /\ auth' = After("onClick", [auth EXCEPT !.showConfirmPassword = ~@])
  /\ UNCHANGED <<orders, points, wishlist, req, resp, acked, amt, products, stripe,
                 accounts>>

\* e.preventDefault();
\* console.log(isLogin ? 'Login' : 'Signup', { email, password, firstName, lastName });
HandleSubmit ==
  /\ auth' = After("handleSubmit",
                   [auth EXCEPT !.log = <<IF auth.isLogin THEN "Login" ELSE "Signup",
                                          auth.email, auth.password,
                                          auth.firstName, auth.lastName>>])
  /\ UNCHANGED <<orders, points, wishlist, req, resp, acked, amt, products, stripe,
                 accounts>>

\* faulty variant: the email is kept across the modes
ToggleModeKeepsEmail ==
  /\ auth' = After("toggleMode",
                   [auth EXCEPT !.isLogin = ~@,
                                !.password = "", !.confirmPassword = "",
                                !.firstName = "", !.lastName = "",
                                !.showPassword = FALSE, !.showConfirmPassword = FALSE])
  /\ UNCHANGED <<orders, points, wishlist, req, resp, acked, amt, products, stripe,
                 accounts>>

\* setIsLogin(!isLogin); setEmail(''); setPassword(''); setConfirmPassword('');
\* setFirstName(''); setLastName(''); setShowPassword(false);
\* setShowConfirmPassword(false);     (one event handler: one render)
ToggleMode ==
  /\ auth' = After("toggleMode",
                   [auth EXCEPT !.isLogin = ~@,
                                !.email = "", !.password = "", !.confirmPassword = "",
                                !.firstName = "", !.lastName = "",
                                !.showPassword = FALSE, !.showConfirmPassword = FALSE])
  /\ UNCHANGED <<orders, points, wishlist, req, resp, acked, amt, products, stripe,
                 accounts>>

AuthPageNext ==
  \/ \E field \in LoginInputs \cup SignupInputs, value \in Texts : SetInput(field, value)
  \/ ToggleShowPassword
  \/ ToggleShowConfirmPassword
  \/ HandleSubmit
  \/ ToggleMode

AuthPageSpec == Init /\ [][AuthPageNext]_vars

\* checkout sessions requested while orders are placed; the checkout route
\* has no guard and its one await is the provider call
PayNext ==
  \/ \E cartItems \in Carts : CreateCheckoutSession(cartItems)
  \/ \E cartItems \in Carts : CreateCheckoutSessionFail(cartItems)
  \/ \E r \in Reqs, u \in Users, a \in SysAmounts :
        NoneInFlight /\ Len(orders) < MaxPayOrders /\ PlaceOrderStart(r, u, a)
  \/ \E r \in Reqs : PlaceOrderStep(r)

PaySpec == Init /\ [][PayNext]_vars

\* ----------------------------------------------------- all handlers
\* every handler of the server, when every request runs to its response
\* before the next one is accepted; the clients are one shopper and the
\* administrator
SystemSeqNext ==
  \/ \E r \in Reqs, u \in SysShoppers, a \in SysAmounts :
        NoneInFlight /\ Len(orders) < MaxSysOrders /\ PlaceOrderStart(r, u, a)
  \/ \E r \in Reqs : PlaceOrderStep(r)
  \/ \E u \in SysShoppers : NoneInFlight /\ GetOrders(u)
  \/ \E r \in Reqs, u \in SysShoppers, p \in SysProducts :
        NoneInFlight /\ AddToWishlistStart(r, u, p)
  \/ \E r \in Reqs, u \in SysShoppers, p \in SysProducts :
        NoneInFlight /\ RemoveFromWishlistStart(r, u, p)
  \/ \E r \in Reqs : WishlistStep(r)
  \/ \E r \in Reqs, t \in Tokens, n \in Names :
        NoneInFlight /\ CreateProductStart(r, t, n)
  \/ \E r \in Reqs, t \in Tokens, p \in SysProducts, body \in Patches :
        NoneInFlight /\ UpdateProductStart(r, t, p, body)
  \/ \E r \in Reqs, t \in Tokens, p \in SysProducts :
        NoneInFlight /\ DeleteProductStart(r, t, p)
  \/ \E r \in Reqs : ProductStep(r)
  \/ \E cartItems \in SysCarts : NoneInFlight /\ CreateCheckoutSession(cartItems)
  \/ \E cartItems \in SysCarts : NoneInFlight /\ CreateCheckoutSessionFail(cartItems)

SystemSeqSpec == Init /\ [][SystemSeqNext]_vars

\* ------------------------------------------------ the points formula
\* const { amount } = req.body
PointsInit ==
  /\ orders = <<>>
  /\ points = [u \in Users |-> DefaultPoints]
  /\ wishlist = [u \in Users |-> <<>>]
  /\ req = [r \in Reqs |-> Idle]
  /\ resp = NoResp
  /\ acked = {}
  /\ products = [p \in Products |-> NoProduct]
  /\ stripe = NoCall
  /\ accounts = Registered
  /\ auth = AuthMounted
  /\ \E n \in -(MaxAmount \div 2)..MaxAmount, d \in Dens :
        amt = [NoAmount EXCEPT !.num = n, !.den = d, !.state = "input"]

\* const pointsEarned = Math.floor(amount / 1000) * 10;
EvalPoints ==
  /\ amt.state = "input"
  /\ amt' = [amt EXCEPT !.state = "computed",
                        !.pointsEarned = PointsEarnedOf(amt.num, amt.den)]
  /\ UNCHANGED <<orders, points, wishlist, req, resp, acked, products, stripe, accounts, auth>>

PointsNext == EvalPoints

PointsSpec == PointsInit /\ [][PointsNext]_vars

\* ------------------------------------------------------ whole system
\* all handlers under concurrent requests
Next ==
  \/ \E r \in Reqs, u \in Users, a \in Amounts :
        Len(orders) + Pending < MaxConcOrders /\ PlaceOrderStart(r, u, a)
  \/ \E r \in Reqs : PlaceOrderStep(r)
  \/ \E u \in Users : GetOrders(u)
  \/ \E r \in Reqs, u \in Users, p \in Products : AddToWishlistStart(r, u, p)
  \/ \E r \in Reqs, u \in Users, p \in Products : RemoveFromWishlistStart(r, u, p)
  \/ \E r \in Reqs : WishlistStep(r)
  \/ \E r \in Reqs, t \in Tokens, n \in Names : CreateProductStart(r, t, n)
  \/ \E r \in Reqs, t \in Tokens, p \in Products, body \in Patches :
        UpdateProductStart(r, t, p, body)
  \/ \E r \in Reqs, t \in Tokens, p \in Products : DeleteProductStart(r, t, p)
  \/ \E r \in Reqs : ProductStep(r)
  \/ \E op \in ProtectedOps \cup AdminOps, t \in Tokens : ProtectRejects(op, t)
  \/ \E op \in AdminOps, t \in Tokens : AdminRejects(op, t)
  \/ \E cartItems \in Carts : CreateCheckoutSession(cartItems)
  \/ \E cartItems \in Carts : CreateCheckoutSessionFail(cartItems)
  \/ \E query \in Queries : GetProducts(query)
  \/ \E p \in Products : GetProductById(p)
  \/ \E p \in Products : GetProductByIdFail(p)
  \/ \E r \in Reqs, email \in Emails, password \in Passwords :
        RegisterUserStart(r, email, password)
  \/ \E r \in Reqs : RegisterStep(r)
  \/ \E email \in Emails, password \in Passwords : LoginUser(email, password)
  \/ \E email \in Emails, password \in Passwords : LoginUserFail(email, password)
  \/ AuthPageNext

Spec == Init /\ [][Next]_vars

\* ==================================================================
\* Properties
\* ==================================================================

\* floor(amount/1000)*10 as the specification writes it, summed over a set of
\* Order ids
RECURSIVE Owed(_)
Owed(ids) ==
  IF ids = {} THEN 0
  ELSE LET i == CHOOSE x \in ids : TRUE
       IN  (orders[i].amount \div 1000) * 10 + Owed(ids \ {i})

Count(list, x) == Cardinality({i \in 1..Len(list) : list[i] = x})

\* the step in which the request of slot r, a request to handler op, ends
Completes(r, op) == req[r].op = op /\ InFlight(r) /\ req'[r].pc = "idle"

C2_PointsMatchOrders ==
  ~PlaceInFlight => \A u \in Users : points[u] = DefaultPoints + Owed(OrdersOf(u))

\* C3: concurrent placeOrder requests of one user lose no credit: once they
\* have all answered, the user's points are the sum of floor(amount/1000)*10
\* over the Orders whose request answered 201 (two concurrent orders of 1000
\* give 20).
C3_NoLostCredit ==
  ~PlaceInFlight =>
    \A u \in Users : points[u] = DefaultPoints + Owed(OrdersOf(u) \cap acked)

\* C4: the Order write and the points update are atomic as a pair: no state,
\* intermediate ones included, holds a persisted Order without its credit or
\* a credit without its Order.
C4_AtomicPair ==
  \A u \in Users : points[u] = DefaultPoints + Owed(OrdersOf(u))

\* C5: when the Order write of a placeOrder request fails (the request leaves
\* Order.create without an Order), the request ends there with status 400: no
\* Order is persisted, no user is loaded, no points update is attempted and
\* no user's points change.
C5_CreateFailure ==
  [][\A r \in Reqs :
       (req[r].op = "placeOrder" /\ req[r].pc = "create"
          /\ req'[r].pc # "create" /\ req'[r].order = 0)
       => /\ req'[r] = Idle
          /\ resp'.op = "placeOrder" /\ resp'.status = 400 /\ resp'.failedAt = "create"
          /\ orders' = orders
          /\ points' = points]_vars

C5_Witness ==
  /\ resp.op = "placeOrder" /\ resp.failedAt = "create" /\ resp.status = 400
  /\ resp.order = 0
  /\ Len(orders) = 1 /\ acked = {1}
  /\ points[resp.user] = Owed(OrdersOf(resp.user)) /\ points[resp.user] > 0

\* C6: a placeOrder request whose user load or points write failed after its
\* Order was written does not end with that Order persisted and its points
\* missing.
C6_NoOrphanOrder ==
  (NoneInFlight /\ resp.op = "placeOrder" /\ resp.failedAt \in {"findUser", "save"})
  => \/ resp.order \notin 1..Len(orders)
     \/ points[resp.user] = DefaultPoints + Owed(OrdersOf(resp.user))

C9_AddIdempotent ==
  [][\A r \in Reqs :
       (Completes(r, "addToWishlist") /\ resp'.status = 200)
       => LET u == req[r].user
              p == req[r].productId
              before == req[r].pre
          IN  /\ IF \E i \in 1..Len(before) : before[i] = p
                 THEN req[r].pc = "findUser" /\ wishlist' = wishlist
                                             /\ wishlist[u] = before
                 ELSE wishlist' = [wishlist EXCEPT ![u] = before \o <<p>>]
              /\ Count(wishlist'[u], p) = 1
              /\ resp'.body = wishlist'[u]]_vars

C9_Witness ==
  /\ NoneInFlight
  /\ resp.op = "addToWishlist" /\ resp.status = 200
  /\ Count(resp.pre, resp.productId) = 1
  /\ Len(resp.pre) = 2
  /\ wishlist[resp.user] = resp.pre

\* C10: removeFromWishlist of a product that is not in the user's wishlist
\* leaves the stored wishlist as it was and raises no error: unless a store
\* operation itself fails, the request answers 200.
C10_RemoveAbsent ==
  [][\A r \in Reqs :
       (Completes(r, "removeFromWishlist")
          /\ \A i \in 1..Len(req[r].pre) : req[r].pre[i] # req[r].productId)
       => /\ wishlist' = wishlist
          /\ wishlist'[req[r].user] = req[r].pre
          /\ resp'.status = 200 \/ resp'.failedAt \in {"findUser", "save"}]_vars

C10_Witness ==
  /\ NoneInFlight
  /\ resp.op = "removeFromWishlist" /\ resp.status = 200
  /\ Len(resp.pre) = 1
  /\ resp.pre[1] # resp.productId
  /\ wishlist[resp.user] = resp.pre

\* the entries of list other than x, in their order
RECURSIVE Without(_, _)
Without(list, x) ==
  IF list = <<>> THEN <<>>
  ELSE IF Head(list) = x THEN Without(Tail(list), x)
       ELSE <<Head(list)>> \o Without(Tail(list), x)

\* C11: after a removeFromWishlist request has answered, productId does not
\* occur in the user's wishlist and every other entry is kept in its order (so
\* a second identical remove changes nothing); no other user's wishlist
\* changes; addToWishlist and removeFromWishlist both answer with the wishlist
\* as it is stored after the operation.
C11_RemoveByValue ==
  [][\A r \in Reqs :
       /\ (Completes(r, "removeFromWishlist") /\ resp'.status = 200)
          => LET u == req[r].user
                 p == req[r].productId
             IN  /\ \A i \in 1..Len(wishlist'[u]) : wishlist'[u][i] # p
                 /\ wishlist' = [wishlist EXCEPT ![u] = Without(req[r].pre, p)]
                 /\ Count(req[r].pre, p) = 0 => wishlist'[u] = req[r].pre
                 /\ resp'.body = wishlist'[u]
       /\ (Completes(r, "addToWishlist") /\ resp'.status = 200)
          => resp'.body = wishlist'[req[r].user]]_vars

C11_Witness ==
  /\ NoneInFlight
  /\ resp.op = "removeFromWishlist" /\ resp.status = 200
  /\ Len(resp.pre) = 2 /\ resp.pre[1] = resp.productId
  /\ wishlist[resp.user] = <<resp.pre[2]>>
  /\ resp.body = <<resp.pre[2]>>

\* C12: addToWishlist never consults the catalog.  With requests run one after
\* another, an add is refused for no productId (it ends with 200 unless a
\* store operation on the User fails), and its effect is a function of the
\* stored wishlist alone: the id is appended unless already listed, whether
\* or not a Product with that id is stored.  A step that changes the catalog
\* (createProduct, deleteProduct) leaves every wishlist as it was.
C12_NoCatalogCheck ==
  [][/\ \A r \in Reqs :
          Completes(r, "addToWishlist")
            => LET u == req[r].user  p == req[r].productId
               IN  \/ /\ resp'.status = 200
                      /\ wishlist'[u] = IF Count(req[r].pre, p) > 0
                                        THEN req[r].pre
                                        ELSE Append(req[r].pre, p)
                   \/ /\ resp'.status = 0
                      /\ resp'.failedAt \in {"findUser", "save"}
                      /\ wishlist' = wishlist
     /\ products' # products => wishlist' = wishlist]_vars

\* a Product was just deleted while a wishlist lists it, next to an id for
\* which no Product was ever created
C12_Witness ==
  /\ NoneInFlight
  /\ resp.op = "deleteProduct" /\ resp.status = 200
  /\ products[resp.productId].state = "removed"
  /\ \E u \in Users, q \in Products :
        /\ Count(wishlist[u], resp.productId) = 1
        /\ products[q].state = "none"
        /\ Count(wishlist[u], q) = 1

\* C13: on the protected routes a request whose bearer token is absent or
\* rejected is answered 401 and no handler runs for it.  When only the users
\* of TokenHolders hold a token: a step that answers 401 changes no Order and
\* no User document; every request that is admitted, and every getOrders
\* answer, is for a token holder; and no Order is ever created for, and no
\* points or wishlist ever changed of, a user nobody holds a token for.
C13_RejectedBeforeHandler ==
  [][/\ (NoneInFlight /\ NoneInFlight' /\ resp'.status = 401)
          => UNCHANGED <<orders, points, wishlist>>
     /\ \A r \in Reqs : req'[r].pc # "idle" => req'[r].user \in TokenHolders
     /\ resp'.status \notin {0, 401} => resp'.user \in TokenHolders
     /\ \A u \in Users \ TokenHolders :
          /\ points'[u] = points[u]
          /\ wishlist'[u] = wishlist[u]
          /\ \A i \in 1..Len(orders') : orders'[i].user # u]_vars

\* a request with a rejected token was answered 401 while Orders, points and
\* a wishlist were stored
C13_Witness ==
  /\ NoneInFlight
  /\ resp.status = 401 /\ resp.failedAt = "token" /\ resp.op = "placeOrder"
  /\ Len(orders) > 0
  /\ \E u \in Users : points[u] > 0 /\ wishlist[u] # <<>>

C15_WriteOnce ==
  [][/\ Len(orders') >= Len(orders)
     /\ Len(orders') <= Len(orders) + 1
     /\ \A i \in 1..Len(orders) : i <= Len(orders') /\ orders'[i] = orders[i]
     /\ Len(orders') = Len(orders) + 1
          => \E r \in Reqs : /\ req[r].op = "placeOrder" /\ req[r].pc = "create"
                              /\ req'[r].pc = "findUser"
                              /\ req'[r].order = Len(orders')
     /\ \A r \in Reqs :
          (req[r].op = "placeOrder" /\ req[r].pc # "create")
            => Len(orders') = Len(orders)
     /\ \A r \in Reqs :
          (Completes(r, "placeOrder") /\ resp'.status = 201)
            => /\ req[r].order \in 1..Len(orders')
               /\ req[r].order \notin acked
               /\ orders'[req[r].order].user = req[r].user
               /\ orders'[req[r].order].amount = req[r].amount
     /\ \A i \in 1..Len(orders') : orders'[i].status = "Processing"]_vars

\* an Order is persisted and, after it, a wishlist was changed, a checkout
\* session was requested and a Product was created and deleted
C15_Witness ==
  /\ NoneInFlight
  /\ Len(orders) = 1 /\ orders[1].status = "Processing" /\ orders[1].amount = 1500
  /\ acked = {1}
  /\ \E u \in Users : wishlist[u] # <<>>
  /\ stripe.called
  /\ resp.op = "deleteProduct" /\ resp.status = 200

\* C16: after any sequence of order placements by any users, a getOrders
\* request of user u is answered 200 with exactly the persisted Orders whose
\* user is u, all of them and no Order of another user, and the step changes
\* no Order, no points, no wishlist and no request.
C16_OwnOrdersOnly ==
  [][(req' = req /\ resp'.op = "getOrders")
       => /\ resp'.status = 200
          /\ \A i \in 1..Len(orders) :
               i \in resp'.body <=> orders[i].user = resp'.user
          /\ resp'.body \subseteq 1..Len(orders)
          /\ UNCHANGED <<orders, points, wishlist, acked, products, stripe>>]_vars

\* getOrders answered u1 with its one Order while an Order of u2 is persisted
C16_Witness ==
  /\ resp.op = "getOrders" /\ resp.user = "u1" /\ resp.status = 200
  /\ Len(orders) = 2
  /\ orders[1].user = "u2" /\ orders[2].user = "u1"
  /\ resp.body = {2}

\* C17: a placeOrder request ends in one of two ways.  It answers 201 with the Order it created, in the step in which its
\* points save succeeds: the Order is persisted and, when the amount earns
\* points, the owner's stored points are the value the request computed.  Or
\* one of its three store operations fails and it answers 400 with message
\* "Order failed" and the error's message, the same answer at each of the
\* three points.
C17_OneFailureAnswer ==
  [][\A r \in Reqs :
       Completes(r, "placeOrder")
         => \/ /\ resp'.status = 201
               /\ req[r].pc = "save"
               /\ resp'.body = <<req[r].order>>
               /\ req[r].order \in 1..Len(orders')
               /\ orders'[req[r].order].user = req[r].user
               /\ (req[r].amount \div 1000) * 10 # 0
                    => points'[req[r].user] = req[r].doc.points
               /\ resp'.message = "" /\ resp'.error = ""
            \/ /\ resp'.status = 400
               /\ resp'.message = "Order failed"
               /\ resp'.error = StoreError
               /\ resp'.body = <<>>
               /\ resp'.failedAt = req[r].pc
               /\ resp'.failedAt \in {"create", "findUser", "save"}
               /\ UNCHANGED <<orders, points>>]_vars

\* the user load of a request failed after its Order was persisted, and the
\* request was answered 400 "Order failed"
C17_Witness ==
  /\ resp.op = "placeOrder" /\ resp.status = 400
  /\ resp.message = "Order failed" /\ resp.error = StoreError
  /\ resp.failedAt = "findUser"
  /\ resp.order \in 1..Len(orders)
  /\ orders[resp.order].user = resp.user
  /\ resp.order \notin acked

\* C18: a createCheckoutSession request for cart c sends the provider one line
\* item per item of c, in the order of c, each with the name, the quantity
\* and unit_amount = price * 100 of its item; it answers 200 with the
\* provider's session id, or 500 "Stripe session creation failed" when the
\* call fails; in both cases it leaves every Order, the points and wishlist of
\* every User, every Product and every request in flight unchanged.
C18_CheckoutFrame ==
  [][(req' = req /\ resp'.op = "createCheckoutSession")
       => /\ stripe'.called
          /\ stripe'.cartItems \in Carts
          /\ Len(stripe'.line_items) = Len(stripe'.cartItems)
          /\ \A i \in 1..Len(stripe'.cartItems) :
               /\ stripe'.line_items[i].name = stripe'.cartItems[i].name
               /\ stripe'.line_items[i].unit_amount = stripe'.cartItems[i].price * 100
               /\ stripe'.line_items[i].quantity = stripe'.cartItems[i].quantity
          /\ \/ resp'.status = 200 /\ Len(resp'.body) = 1 /\ resp'.body[1] \in Sessions
             \/ /\ resp'.status = 500
                /\ resp'.message = "Stripe session creation failed"
                /\ resp'.body = <<>>
          /\ UNCHANGED <<orders, points, wishlist, products, acked>>]_vars

\* a session was created for a cart of two items while an Order and points
\* were stored and a placeOrder request was in flight
C18_Witness ==
  /\ resp.op = "createCheckoutSession" /\ resp.status = 200
  /\ Len(stripe.cartItems) = 2
  /\ stripe.line_items[1].unit_amount = 1000 /\ stripe.line_items[1].quantity = 3
  /\ stripe.line_items[2].unit_amount = 2000 /\ stripe.line_items[2].quantity = 1
  /\ Len(orders) = 1
  /\ \E r \in Reqs : req[r].op = "placeOrder" /\ req[r].pc = "save"

C20_FieldsApart ==
  [][/\ DOMAIN points' = Users
     /\ DOMAIN wishlist' = Users
     /\ \A r \in Reqs :
          req'[r].pc # req[r].pc
            => LET op == IF req[r].pc = "idle" THEN req'[r].op ELSE req[r].op
                   u == IF req[r].pc = "idle" THEN req'[r].user ELSE req[r].user
               IN  /\ op \in {"addToWishlist", "removeFromWishlist"} => points' = points
                   /\ op = "placeOrder" => wishlist' = wishlist
                   /\ \A v \in Users \ {u} :
                        points'[v] = points[v] /\ wishlist'[v] = wishlist[v]]_vars

\* an addToWishlist request that loaded the User before a placeOrder of the
\* same user wrote its points is about to save, and a placeOrder request that
\* loaded the User before the wishlist changed was answered 201
C20_Witness ==
  /\ resp.op = "placeOrder" /\ resp.status = 201
  /\ points[resp.user] = 10
  /\ \E r \in Reqs :
        /\ req[r].op = "addToWishlist" /\ req[r].pc = "save"
        /\ req[r].user = resp.user
        /\ req[r].doc.points = 0
        /\ wishlist[resp.user] = <<>>

\* C21: emails stay unique.  Under concurrent registrations no two stored
\* Users ever have the same email; a registerUser request that finds a stored
\* User with its email answers 400 "User already exists"; and a request that
\* ends without creating a User (400, or no answer after a rejected store
\* operation) leaves the User collection as it was.
C21_UniqueEmail ==
  [][/\ \A u, v \in Users :
          (u # v /\ accounts'[u].state = "stored" /\ accounts'[v].state = "stored")
            => accounts'[u].email # accounts'[v].email
     /\ \A r \in Reqs :
          Completes(r, "registerUser")
            => LET taken == \E u \in Users : /\ accounts[u].state = "stored"
                                             /\ accounts[u].email = req[r].input[1]
               IN  /\ (req[r].pc = "findEmail" /\ taken /\ resp'.status # 0)
                        => resp'.status = 400 /\ resp'.message = "User already exists"
                   /\ taken => accounts' = accounts
                   /\ resp'.status # 200 => accounts' = accounts
                   /\ resp'.status = 200
                        => /\ ~taken
                           /\ accounts[resp'.user].state = "none"
                           /\ accounts'[resp'.user].state = "stored"
                           /\ accounts'[resp'.user].email = req[r].input[1]
                           /\ \A v \in Users \ {resp'.user} : accounts'[v] = accounts[v]]_vars

\* two concurrent registrations with one email both found no User; one stored
\* its User and the insert of the other was rejected
C21_Witness ==
  /\ NoneInFlight
  /\ resp.op = "registerUser" /\ resp.failedAt = "duplicate" /\ resp.status = 0
  /\ Cardinality({u \in Users : accounts[u].state = "stored"}) = 1
  /\ \E u \in Users : accounts[u].state = "stored" /\ accounts[u].email = resp.input[1]

\* C22: loginUser answers 200 with a token only when a stored User has the
\* given email and its stored credential is the hash of the given password,
\* and the token is one for that user; when no User has the email or the
\* password does not match it answers 401 "Invalid email or password" with no
\* token; and a login changes no stored document and no request.
C22_LoginOnlyOnMatch ==
  [][(req' = req /\ resp'.op = "loginUser")
       => LET email == resp'.input[1]
              password == resp'.input[2]
              matching == {u \in Users : /\ accounts[u].state = "stored"
                                        /\ accounts[u].email = email
                                        /\ accounts[u].password.plain = password
                                        /\ accounts[u].password.rounds = 1}
          IN  /\ resp'.status \in {0, 200, 401}
              /\ resp'.status = 200
                   => /\ resp'.user \in matching
                      /\ resp'.body = <<[kind |-> "valid", id |-> resp'.user]>>
              /\ resp'.status # 200 => resp'.body = <<>>
              /\ resp'.status = 401
                   => matching = {} /\ resp'.message = "Invalid email or password"
              /\ resp'.status = 0 => resp'.failedAt = "findEmail"
              /\ UNCHANGED <<accounts, orders, points, wishlist, products>>]_vars

\* a login with the email of a stored User and another password was answered 401
C22_Witness ==
  /\ resp.op = "loginUser" /\ resp.status = 401
  /\ \E u \in Users :
        /\ accounts[u].state = "stored"
        /\ accounts[u].email = resp.input[1]
        /\ accounts[u].password.plain # resp.input[2]

\* C23: placeOrder accepts every amount with every items list.  A request
\* that has entered the handler can always create its Order, whatever its
\* items and amount; the Order stores the amount of the request; and a
\* request answered 201 has raised its owner's points by
\* floor(amount/1000)*10, whatever the items hold.
C23_AmountUnchecked ==
  /\ [](\A r \in Reqs :
          (req[r].op = "placeOrder" /\ req[r].pc = "create")
            => ENABLED (OrderCreate(r) /\ Len(orders') = Len(orders) + 1))
  /\ [][\A r \in Reqs :
          /\ (req[r].op = "placeOrder" /\ req[r].pc = "create" /\ orders' # orders)
               => orders'[Len(orders')].amount = req[r].amount
          /\ (Completes(r, "placeOrder") /\ resp'.status = 201)
               => /\ orders[req[r].order].amount = req[r].amount
                  /\ points' = [req[r].pre EXCEPT
                                  ![req[r].user] = @ + (req[r].amount \div 1000) * 10]]_vars

\* a request with two items, three pieces in all, and amount 1000 was answered
\* 201 and earned 10 points; another with the same items would earn 0 for 500
C23_Witness ==
  /\ NoneInFlight
  /\ resp.op = "placeOrder" /\ resp.status = 201
  /\ Len(orders[resp.order].items) = 2
  /\ orders[resp.order].items[1].quantity + orders[resp.order].items[2].quantity = 3
  /\ orders[resp.order].amount = 1000
  /\ points[resp.user] = resp.pre[resp.user] + 10

\* C24: getProducts answers with exactly the stored Products that satisfy
\* every supplied filter at once: keyword matches inside the name without
\* regard to case, category is equal, color is one of colors, size is one of
\* sizes; a filter that is omitted or empty restricts nothing, so the query
\* with no filter returns every stored Product; and the step changes no
\* state.
C24_AllFiltersAtOnce ==
  [][(req' = req /\ resp'.op = "getProducts")
       => LET query == resp'.input[1]
          IN  /\ resp'.status = 200
              /\ \A p \in Products :
                   p \in resp'.body
                     <=> /\ products[p].state = "stored"
                         /\ query.keyword = <<>>
                              \/ RegexMatches(query.keyword, products[p].name)
                         /\ query.category = ""
                              \/ products[p].category = query.category
                         /\ query.color = "" \/ query.color \in products[p].colors
                         /\ query.size = "" \/ query.size \in products[p].sizes
              /\ resp'.body \subseteq Products
              /\ query = [keyword |-> <<>>, category |-> "", color |-> "", size |-> ""]
                   => resp'.body = {p \in Products : products[p].state = "stored"}
              /\ UNCHANGED <<orders, points, wishlist, products, accounts, stripe>>]_vars

\* a query with all four filters, its keyword in another case than the name,
\* returned the one Product that meets them all; the other stored Product
\* meets three of them
C24_Witness ==
  /\ resp.op = "getProducts" /\ resp.status = 200
  /\ resp.input[1] = [keyword |-> <<"E">>, category |-> "tops", color |-> "blue",
                       size |-> "M"]
  /\ resp.body = {"p1"}
  /\ products["p2"].state = "stored" /\ products["p2"].sizes = {}
  /\ products["p2"].category = "tops" /\ "blue" \in products["p2"].colors

\* C25: getProductById, updateProduct and deleteProduct on an id with no
\* Product answer 404 "Product not found" and leave the catalog unchanged; on
\* an existing id updateProduct changes only that Product and deleteProduct
\* removes only that Product, after which the id stays without a Product (so
\* it answers 404); createProduct stores inStock = true whatever the body
\* says.
C25_NotFoundAndFrame ==
  [][/\ (req' = req /\ resp'.op = "getProductById" /\ resp'.failedAt = "none")
         => /\ products' = products
            /\ IF products[resp'.productId].state = "stored"
               THEN resp'.status = 200 /\ resp'.body = <<resp'.productId>>
               ELSE resp'.status = 404 /\ resp'.message = "Product not found"
     /\ \A r \in Reqs :
          /\ (req[r].op \in {"updateProduct", "deleteProduct"}
                /\ req[r].pc = "findProduct" /\ req'[r].pc # "findProduct"
                /\ products[req[r].productId].state # "stored"
                /\ resp'.failedAt = "none")
               => /\ products' = products
                  /\ req'[r].pc = "idle"
                  /\ resp'.status = 404 /\ resp'.message = "Product not found"
          /\ (Completes(r, "updateProduct") /\ resp'.status = 200)
               => /\ \A q \in Products \ {req[r].productId} : products'[q] = products[q]
                  /\ products'[req[r].productId].state = "stored"
          /\ (Completes(r, "deleteProduct") /\ resp'.status = 200)
               => /\ \A q \in Products \ {req[r].productId} : products'[q] = products[q]
                  /\ products[req[r].productId].state = "stored"
                  /\ products'[req[r].productId].state = "removed"
          /\ (Completes(r, "createProduct") /\ resp'.status = 201)
               => /\ products'[resp'.productId].inStock = TRUE
                  /\ products[resp'.productId].state = "none"
                  /\ \A q \in Products \ {resp'.productId} : products'[q] = products[q]
     /\ \A p \in Products :
          products[p].state = "removed" => products'[p].state = "removed"]_vars

\* getProductById answered 404 for the id of a Product that deleteProduct
\* removed, while the other Product, created from a body that carried its own
\* inStock, is still stored
C25_Witness ==
  /\ resp.op = "getProductById" /\ resp.status = 404
  /\ resp.message = "Product not found"
  /\ products[resp.productId].state = "removed"
  /\ \E q \in Products \ {resp.productId} :
        products[q].state = "stored" /\ products[q].inStock

\* C26: the wishlist is a set under concurrency: in every reachable state no
\* productId occurs more than once in a stored wishlist, and a step of a
\* request on one product removes no other product from the stored wishlist.
C26_SetUnderConcurrency ==
  /\ [](\A u \in Users, p \in Products : Count(wishlist[u], p) <= 1)
  /\ [][\A r \in Reqs :
          (req[r].op \in {"addToWishlist", "removeFromWishlist"}
             /\ req'[r].pc # req[r].pc)
            => \A p \in Products \ {req[r].productId} :
                 Count(wishlist[req[r].user], p) > 0
                   => Count(wishlist'[req[r].user], p) > 0]_vars

\* C27: as long as every order amount, persisted or in a request being
\* served, is non-negative, every user's points are a non-negative whole
\* multiple of 10, and no step lowers any user's points.
C27_PointsMonotone ==
  /\ []((\A i \in 1..Len(orders) : orders[i].amount >= 0)
          => \A u \in Users : points[u] >= 0 /\ points[u] % 10 = 0)
  /\ [][(/\ \A i \in 1..Len(orders') : orders'[i].amount >= 0
          /\ \A r \in Reqs : InFlight(r) => req[r].amount >= 0)
         => \A u \in Users : points'[u] >= points[u]]_vars

\* C28: the user.save() of placeOrder, addToWishlist and removeFromWishlist
\* leaves every stored credential as it was (it is hashed once only), so a
\* login with a registered email and its password is answered 200 before and
\* after these saves.
C28_HashKept ==
  [][/\ \A r \in Reqs :
          (/\ req[r].op \in {"placeOrder", "addToWishlist", "removeFromWishlist"}
           /\ req[r].pc = "save" /\ req'[r].pc = "idle")
            => \A u \in Users :
                 /\ accounts'[u].password = accounts[u].password
                 /\ accounts'[u].password.rounds = 1
     /\ (/\ req' = req /\ resp'.op = "loginUser" /\ resp'.failedAt = "none"
         /\ resp'.input \in {<<"a@nyla.io", "pw1">>, <<"b@nyla.io", "pw2">>})
          => resp'.status = 200]_vars

\* the user whose orders earned points and whose wishlist was written logged
\* in with the registered password
C28_Witness ==
  /\ resp.op = "loginUser" /\ resp.status = 200 /\ resp.user = "u2"
  /\ resp.input = <<"b@nyla.io", "pw2">>
  /\ points["u2"] > 0
  /\ wishlist["u2"] # <<>>

\* C29: a user's orders field lists that user's Orders: a placeOrder request
\* answered 201 leaves the id of its Order in the orders field of its user,
\* and whenever no request is in flight and every persisted Order belongs to
\* a request answered 201, every user's orders field is the set of the ids of
\* the persisted Orders of that user.
C29_OrdersListed ==
  /\ [][\A r \in Reqs :
          (Completes(r, "placeOrder") /\ resp'.status = 201)
            => req[r].order \in accounts'[req[r].user].orders]_vars
  /\ []((NoneInFlight /\ acked = 1..Len(orders))
          => \A u \in Users :
               accounts[u].orders = {i \in 1..Len(orders) : orders[i].user = u})

\* C30: toggleMode flips the mode of the Auth page and in the same step
\* empties email, password, confirmPassword, firstName and lastName and
\* lowers both show-password flags; a toggleMode that follows a toggleMode
\* returns to the mode before the first with all fields empty; and
\* handleSubmit changes none of the eight values.
C30_ToggleResets ==
  [][/\ auth'.last = "toggleMode"
          => /\ auth'.isLogin = ~auth.isLogin
             /\ auth'.email = "" /\ auth'.password = "" /\ auth'.confirmPassword = ""
             /\ auth'.firstName = "" /\ auth'.lastName = ""
             /\ auth'.showPassword = FALSE /\ auth'.showConfirmPassword = FALSE
             /\ auth.last = "toggleMode"
                  => /\ auth'.isLogin = auth.prev
                     /\ auth.email = "" /\ auth.password = ""
                     /\ auth.confirmPassword = ""
                     /\ auth.firstName = "" /\ auth.lastName = ""
     /\ auth'.last = "handleSubmit"
          => /\ auth'.isLogin = auth.isLogin
             /\ auth'.showPassword = auth.showPassword
             /\ auth'.showConfirmPassword = auth.showConfirmPassword
             /\ auth'.email = auth.email /\ auth'.password = auth.password
             /\ auth'.confirmPassword = auth.confirmPassword
             /\ auth'.firstName = auth.firstName /\ auth'.lastName = auth.lastName
     /\ auth'.last # "toggleMode" => auth'.isLogin = auth.isLogin]_vars

\* toggleMode ran on a signup form that had been submitted with an email, a
\* password and a first name: the page is back in login mode and empty
C30_Witness ==
  /\ auth.last = "toggleMode" /\ auth.isLogin /\ ~auth.prev
  /\ auth.log = <<"Signup", "a", "a", "a", "">>
  /\ auth.email = "" /\ auth.password = "" /\ auth.firstName = ""
====
